---- MODULE Spec2Model ----
(***************************************************************************)
(* Real-time delivery subsystem of the chat backend:                       *)
(*   backend/websocket_manager.py  ConnectionManager, websocket_auth       *)
(*   backend/redis_client.py       RedisClient (broker bridge, presence)   *)
(*   backend/main.py               websocket_endpoint, get_online_users    *)
(*   backend/crud.py               create_message, update_user_status      *)
(*                                                                         *)
(* Several server processes (Procs) each run one asyncio event loop with   *)
(* one ConnectionManager and one RedisClient; they share one broker (the   *)
(* topics chat:<c> and the set online_users) and one database.             *)
(*                                                                         *)
(* Atomicity.  A coroutine runs without interleaving on its event loop     *)
(* until an await really suspends.  asyncio.Lock.acquire does not suspend  *)
(* when the lock is free, and no locked section of the manager contains    *)
(* an await, so the lock is free whenever a coroutine is resumed and each  *)
(* locked section runs within the step that enters it.  The suspension     *)
(* points that remain are the socket calls: accept, send_json,             *)
(* receive_text and close.  The redis calls are blocking and synchronous.  *)
(*                                                                         *)
(* An action is one manager operation, or the code between two suspension  *)
(* points.  Where the endpoint runs two operations without suspending      *)
(* (connect then the join broadcast; disconnect then the leave broadcast)  *)
(* the state between them is a state of the model, in which no other       *)
(* coroutine of the same event loop can run (LoopFree) while the other     *)
(* processes and the listener threads can.                                 *)
(*                                                                         *)
(* Exceptions.  An operation of the manager carries the exception that is  *)
(* propagating in the field exc of its state; a try/except is the test of  *)
(* that field.  Spec is the system with a broker that answers every        *)
(* command; SpecBroker adds outages, during which every command sent to    *)
(* the broker raises.  A database call of the endpoint that raises is a    *)
(* step of its own (ReceiveBadFrame, JoinFailed).  SpecStatus is the       *)
(* messages table alone, under the status operations of crud.py.           *)
(***************************************************************************)
EXTENDS Integers, Sequences, FiniteSets, TLC

\* ------------------------------------------------------------------ bounds
NumProcs    == 2     \* server processes
NumUsers    == 2     \* user ids
NumChannels == 2     \* channel ids
MaxConns    == 2     \* websocket connections opened during a run
MaxFrames   == 2     \* inbound frames received during a run
MaxOutages  == 1     \* broker outages during a run

Procs    == 1..NumProcs
Users    == 1..NumUsers
Channels == 1..NumChannels
Conns    == 1..MaxConns

\* the texts a client may put in the content field of a frame
Contents == {"hi"}

\* ------------------------------------------------------------- dict helpers
\* Python dicts are functions whose DOMAIN is the set of keys.
EmptyDict == <<>>
DictPut(d, k, v) == [x \in (DOMAIN d) \cup {k} |-> IF x = k THEN v ELSE d[x]]
DictDel(d, k) == [x \in (DOMAIN d) \ {k} |-> d[x]]

\* ------------------------------------------------------------------- state
VARIABLES
    active_connections,  \* [Procs -> user -> channel -> connection]
    connection_status,   \* [Procs -> user -> channel -> BOOLEAN]
    channel_subscribers, \* [Procs -> channel -> set of users]
    pubsub_clients,      \* [Procs -> set of channels c with an entry for chat:c]
    callback_map,        \* [Procs -> set of channels c with a callback for chat:c]
    listeners,           \* [Procs -> [Channels -> number of pubsub connections
                         \*   of the process that are subscribed to chat:c at the broker]]
    online_users,        \* the broker's set "online_users"
    conn,                \* [Conns -> the (proc, user, chan) of the connection, and
                         \*   what the handshake found: auth, member]
    pc,                  \* [Conns -> position of the endpoint coroutine]
    transport,           \* [Conns -> the peer's side of the socket: "open", "stalled"
                         \*   (the peer reads no more and writes to it do not return)
                         \*   or "closed"]
    inbox,               \* [Conns -> sequence of events the client has received]
    db_messages,         \* the messages table, in insertion order
    user_status,         \* [Users -> the status column of the users table]
    broker_up,           \* the broker answers the commands sent to it
    outages,             \* number of broker outages so far
    broker_queue,        \* [Procs -> publications handed to a listener thread, not yet handled]
    loop_tasks,          \* [Procs -> broadcast tasks created on the loop, not yet run]
    frames,              \* number of inbound frames received so far
    published,           \* history: for each publish, who was there to receive it
    oplog                \* history: the manager and broker calls made by the last step

vars == <<active_connections, connection_status, channel_subscribers,
          pubsub_clients, callback_map, listeners, online_users, conn, pc,
          transport, inbox, db_messages, user_status, broker_up, outages, broker_queue,
          loop_tasks, frames, published, oplog>>

NoConn == [proc |-> 0, user |-> 0, chan |-> 0, auth |-> FALSE, member |-> FALSE]

\* ------------------------------------------------------------------ events
\* Outbound frames: {"message_type": ..., "data": ...}; one record shape.
Event(t, c, i, txt, s, st) ==
    [message_type |-> t, channel_id |-> c, id |-> i, content |-> txt,
     sender_id |-> s, status |-> st]

ConnectedEvent(c)   == Event("connection_status", c, 0, "connected", 0, "")
JoinNotification(u) == Event("notification", 0, 0, "joined the chat", u, "")
LeaveNotification(u) == Event("notification", 0, 0, "left the chat", u, "")
ErrorEvent          == Event("error", 0, 0, "Error processing your message", 0, "")
\* (variant) the event is built from the object before it is stored: no id
MessageOutUnsaved(m) ==
    Event("message", m.channel_id, 0, m.content, m.sender_id, m.status)

MessageOut(m) ==
    Event("message", m.channel_id, m.id, m.content, m.sender_id, m.status)

\* json.dumps / json.loads of an event: the wire form is the list of fields
json_dumps(e) ==
    <<e.message_type, e.channel_id, e.id, e.content, e.sender_id, e.status>>
json_loads(s) == Event(s[1], s[2], s[3], s[4], s[5], s[6])

\* ------------------------------------------------------ the manager's view
\* The state one process's ConnectionManager and RedisClient work on, with
\* the shared online_users set, the clients' inboxes and the call log.
\* lock: self.lock is held; up: the broker answers; exc: the exception that
\* is propagating ("" when none).
Mgr(p) ==
    [ac     |-> active_connections[p],
     cs     |-> connection_status[p],
     subs   |-> channel_subscribers[p],
     pubsub |-> pubsub_clients[p],
     cb     |-> callback_map[p],
     live   |-> listeners[p],
     online |-> online_users,
     inbox  |-> inbox,
     lock   |-> FALSE,
     up     |-> broker_up,
     exc    |-> "",
     log    |-> <<>>]

\* One call of the step: op, its (user, channel), its boolean outcome ok, the
\* connection it acted on (0: none), a count n, two flags read at the call,
\* and locked: the manager's lock was held when the call was made.
LogEntry(op, u, c, ok, w, n, open, inch) ==
    [op |-> op, user |-> u, chan |-> c, ok |-> ok, conn |-> w, n |-> n,
     open |-> open, inch |-> inch, locked |-> FALSE]

\* Appending one call to the log of the step.
Logged(m, e) == [m EXCEPT !.log = Append(@, [e EXCEPT !.locked = m.lock])]

\* raise, and the test an except clause makes
Raise(m, e) == [m EXCEPT !.exc = e]
Raised(m)   == m.exc # ""
Caught(m)   == [m EXCEPT !.exc = ""]

\* `async with self.lock`: the lock is free whenever it is requested (no
\* locked section suspends), and it is released on every way out.
lock_acquire(m) == [m EXCEPT !.lock = TRUE]

\* (variant) the lock is kept on the way out
lock_release_never(m) == m

lock_release(m) == [m EXCEPT !.lock = FALSE]

Registered(m, u, c) == u \in DOMAIN m.ac /\ c \in DOMAIN m.ac[u]

\* ------------------------------------------------------------ RedisClient
\* subscribe: store the callback, open a NEW pubsub connection subscribed to
\* the topic and start its listener thread; an entry already stored for the
\* topic is overwritten and its pubsub connection keeps listening.
\* log: ok = a subscription entry already existed, n = size of the
\* subscriber set at the call.
\* When the broker does not answer, the SUBSCRIBE of line 25 raises after
\* the callback was stored at line 21.
SubscriberCount(m, c) == IF c \in DOMAIN m.subs THEN Cardinality(m.subs[c]) ELSE 0

redis_subscribe(m, u, c) ==
    IF m.up
    THEN Logged([m EXCEPT !.cb = @ \cup {c},
                          !.pubsub = @ \cup {c},
                          !.live = [@ EXCEPT ![c] = @ + 1]],
                LogEntry("subscribe", u, c, c \in m.pubsub, 0, SubscriberCount(m, c),
                         FALSE, FALSE))
    ELSE Raise(Logged([m EXCEPT !.cb = @ \cup {c}],
                      LogEntry("subscribe_failed", u, c, c \in m.pubsub, 0,
                               SubscriberCount(m, c), FALSE, FALSE)),
               "ConnectionError")

\* unsubscribe: only when an entry is stored; closes that pubsub connection.
\* When the broker does not answer, the UNSUBSCRIBE of line 46 raises and
\* the entry and the callback stay.
redis_unsubscribe(m, u, c) ==
    IF c \notin m.pubsub THEN m
    ELSE IF m.up
    THEN Logged([m EXCEPT !.pubsub = @ \ {c},
                          !.cb = @ \ {c},
                          !.live = [@ EXCEPT ![c] = @ - 1]],
                LogEntry("unsubscribe", u, c, TRUE, 0, 0, FALSE, FALSE))
    ELSE Raise(Logged(m, LogEntry("unsubscribe", u, c, FALSE, 0, 0, FALSE, FALSE)),
               "ConnectionError")

\* SADD / SREM on the set online_users.  log: ok = the broker answered.
add_to_set(m, u) ==
    IF m.up
    THEN Logged([m EXCEPT !.online = @ \cup {u}],
                LogEntry("sadd", u, 0, TRUE, 0, 0, FALSE, FALSE))
    ELSE Raise(Logged(m, LogEntry("sadd", u, 0, FALSE, 0, 0, FALSE, FALSE)),
               "ConnectionError")

remove_from_set(m, u) ==
    IF m.up
    THEN Logged([m EXCEPT !.online = @ \ {u}],
                LogEntry("srem", u, 0, TRUE, 0, 0, FALSE, FALSE))
    ELSE Raise(Logged(m, LogEntry("srem", u, 0, FALSE, 0, 0, FALSE, FALSE)),
               "ConnectionError")

\* ------------------------------------------------------- ConnectionManager
is_user_connected_in(m, u) ==
    IF u \notin DOMAIN m.cs THEN FALSE
    ELSE \E c \in DOMAIN m.cs[u] : m.cs[u][c]

is_user_in_channel_in(m, u, c) ==
    IF u \notin DOMAIN m.cs THEN FALSE
    ELSE IF c \in DOMAIN m.cs[u] THEN m.cs[u][c] ELSE FALSE

is_user_connected(p, u)     == is_user_connected_in(Mgr(p), u)
is_user_in_channel(p, u, c) == is_user_in_channel_in(Mgr(p), u, c)

\* The locked section of connect (lines 31-46), in three parts: the user's
\* dicts are created when missing, the connection is stored, and the user
\* is added to the channel's set (created when missing).
connect_init_user(m, u) ==
    IF u \in DOMAIN m.ac THEN m
    ELSE [m EXCEPT !.ac = DictPut(@, u, EmptyDict), !.cs = DictPut(@, u, EmptyDict)]

connect_store(m, w, u, c) ==
    [m EXCEPT !.ac[u] = DictPut(@, c, w), !.cs[u] = DictPut(@, c, TRUE)]

connect_add_subscriber(m, u, c) ==
    IF c \in DOMAIN m.subs
    THEN [m EXCEPT !.subs[c] = @ \cup {u}]
    ELSE [m EXCEPT !.subs = DictPut(@, c, {u})]

connect_register(m, w, u, c) ==
    lock_release(
        Logged(connect_add_subscriber(
                   connect_store(connect_init_user(lock_acquire(m), u), w, u, c), u, c),
               LogEntry("register", u, c, TRUE, w, 0, FALSE, FALSE)))

\* disconnect (lines 82-111), in the order of the code.
\* Lines 100-107: the user leaves the channel's set; the last one out
\* unsubscribes and deletes the set.  remove() of a user that is not in the
\* set raises KeyError.  An exception raised in the locked section goes to
\* the except clause of line 110: what was done before the raise stays
\* done and the rest is skipped.
disconnect_del_set(m, c) ==
    IF Raised(m) THEN m ELSE [m EXCEPT !.subs = DictDel(@, c)]

disconnect_drop_channel(m, u, c) ==
    disconnect_del_set(redis_unsubscribe([m EXCEPT !.subs[c] = @ \ {u}], u, c), c)

\* (variant) the channel's set and subscription are dropped with any user
disconnect_subscriber_all(m, u, c) ==
    IF Raised(m) THEN m
    ELSE IF c \notin DOMAIN m.subs THEN m
    ELSE disconnect_drop_channel(m, u, c)

disconnect_subscriber(m, u, c) ==
    IF Raised(m) THEN m
    ELSE IF c \notin DOMAIN m.subs THEN m
    ELSE IF u \notin m.subs[c] THEN Raise(m, "KeyError")
    ELSE IF m.subs[c] = {u} THEN disconnect_drop_channel(m, u, c)
    ELSE [m EXCEPT !.subs[c] = @ \ {u}]

\* (variant) the user's connections to all channels are dropped together
disconnect_connection_all(m, u, c) ==
    remove_from_set([m EXCEPT !.ac = DictDel(@, u), !.cs = DictDel(@, u)], u)

\* (variant) the presence entry is removed with every connection
disconnect_connection_absent(m, u, c) ==
    IF DOMAIN m.ac[u] = {c}
    THEN remove_from_set([m EXCEPT !.ac = DictDel(@, u), !.cs = DictDel(@, u)], u)
    ELSE remove_from_set([m EXCEPT !.ac[u] = DictDel(@, c)], u)

\* (variant) the presence entry is not removed with the last connection
disconnect_connection_present(m, u, c) ==
    IF DOMAIN m.ac[u] = {c}
    THEN [m EXCEPT !.ac = DictDel(@, u), !.cs = DictDel(@, u)]
    ELSE [m EXCEPT !.ac[u] = DictDel(@, c)]

\* Lines 91-98: the connection is deleted; a user left with no connection
\* loses both dicts and the presence entry.
disconnect_connection(m, u, c) ==
    IF DOMAIN m.ac[u] = {c}
    THEN remove_from_set([m EXCEPT !.ac = DictDel(@, u), !.cs = DictDel(@, u)], u)
    ELSE [m EXCEPT !.ac[u] = DictDel(@, c)]

\* (variant) the status flag is left as it is
disconnect_status_kept(m, u, c) == m

\* Lines 86-88: the status flag of the session is cleared.
disconnect_status(m, u, c) ==
    IF u \in DOMAIN m.cs /\ c \in DOMAIN m.cs[u]
    THEN [m EXCEPT !.cs[u][c] = FALSE]
    ELSE m

\* (variant) the presence entry is cleared whenever the user has no
\* connection left, also when this call removed none
disconnect_registered_eager(m, u, c) ==
    IF Registered(m, u, c)
    THEN disconnect_subscriber(disconnect_connection(m, u, c), u, c)
    ELSE IF u \notin DOMAIN m.ac THEN remove_from_set(m, u) ELSE m

disconnect_registered(m, u, c) ==
    IF Registered(m, u, c)
    THEN disconnect_subscriber(disconnect_connection(m, u, c), u, c)
    ELSE m

\* Lines 110-111: the except clause of disconnect logs and returns.
disconnect_except(m, u, c) ==
    IF Raised(m)
    THEN Logged(Caught(m), LogEntry("caught", u, c, TRUE, 0, 0, FALSE, FALSE))
    ELSE m

\* log: ok = the session was registered at the call.
disconnect(m, u, c) ==
    disconnect_except(
        lock_release(
            disconnect_registered(
                disconnect_status(
                    lock_acquire(
                        Logged(m, LogEntry("disconnect", u, c, Registered(m, u, c),
                                           0, 0, FALSE, FALSE))),
                    u, c),
                u, c)),
        u, c)

\* websocket.send_json on connection w: the write reaches the client when the
\* peer's side is open and raises otherwise.
WsOpen(w) == transport[w] = "open"
ws_deliver(m, w, ev) ==
    Logged([m EXCEPT !.inbox[w] = Append(@, ev)],
           LogEntry("ws_send", conn[w].user, conn[w].chan, TRUE, w, 0, TRUE, FALSE))

\* (variant) the state of the socket compared with DISCONNECTED
ClientStateIsDisconnected(w) == ~WsOpen(w)

\* The expression `websocket.client_state.DISCONNECTED` (lines 77, 119):
\* client_state is a member of the WebSocketState enum, and an attribute
\* lookup of DISCONNECTED on a member yields the member DISCONNECTED itself,
\* whatever the state of the socket.  An Enum member is truthy.
ClientStateDisconnected(w) == TRUE

\* send_personal_message (lines 113-131): [m |-> state after, ok |-> result].
\* log: ok = the value returned, conn = the session's connection (0 when not
\* registered), open = the peer's side was open at the call, inch =
\* is_user_in_channel(user, channel) when the call returns, n = 1 when the
\* call ends with an exception instead of a value.
send_result(m, ok, w, u, c, open) ==
    [m  |-> Logged(m, LogEntry("send", u, c, ok, w, IF Raised(m) THEN 1 ELSE 0, open,
                               is_user_in_channel_in(m, u, c))),
     ok |-> ok]

send_to_connection(m, ev, w, u, c) ==
    IF ~ClientStateDisconnected(w)
    THEN IF WsOpen(w)
         THEN send_result(ws_deliver(m, w, ev), TRUE, w, u, c, TRUE)
         ELSE send_result(disconnect(m, u, c), FALSE, w, u, c, FALSE)
    ELSE send_result(disconnect(m, u, c), FALSE, w, u, c, WsOpen(w))

SmallestOf(S) == CHOOSE x \in S : \A y \in S : x <= y

\* (variant) the event goes to the user's session in whatever channel
send_personal_message_any(m, ev, u, c) ==
    IF u \in DOMAIN m.ac /\ DOMAIN m.ac[u] # {}
    THEN send_to_connection(m, ev, m.ac[u][SmallestOf(DOMAIN m.ac[u])], u,
                            SmallestOf(DOMAIN m.ac[u]))
    ELSE send_result(m, FALSE, 0, u, c, FALSE)

\* (variant) the write is made without the try/except around it
send_personal_message_unprotected(m, ev, u, c) ==
    IF ~Registered(m, u, c) THEN send_result(m, FALSE, 0, u, c, FALSE)
    ELSE IF WsOpen(m.ac[u][c])
    THEN send_result(ws_deliver(m, m.ac[u][c], ev), TRUE, m.ac[u][c], u, c, TRUE)
    ELSE send_result(Raise(m, "WebSocketDisconnect"), FALSE, m.ac[u][c], u, c, FALSE)

send_personal_message(m, ev, u, c) ==
    IF Registered(m, u, c)
    THEN send_to_connection(m, ev, m.ac[u][c], u, c)
    ELSE send_result(m, FALSE, 0, u, c, FALSE)

\* broadcast_to_channel (lines 133-142): the loop over the snapshot.
\* Lines 140-142: a failed send to a user still in the set is followed by a
\* second disconnect.
broadcast_after_send(r, u, c) ==
    IF ~r.ok /\ c \in DOMAIN r.m.subs /\ u \in r.m.subs[c]
    THEN disconnect(r.m, u, c)
    ELSE r.m


RECURSIVE broadcast_loop(_, _, _, _)
broadcast_step(m, todo, u, c, ev) ==
    broadcast_loop(broadcast_after_send(send_personal_message(m, ev, u, c), u, c),
                   todo \ {u}, c, ev)

broadcast_loop(m, todo, c, ev) ==
    IF todo = {} THEN m
    ELSE broadcast_step(m, todo, SmallestOf(todo), c, ev)

\* log: n = size of the snapshot.
broadcast_to_channel(m, c, ev) ==
    IF c \in DOMAIN m.subs
    THEN broadcast_loop(
           Logged(m, LogEntry("broadcast", 0, c, TRUE, 0, Cardinality(m.subs[c]),
                              FALSE, FALSE)),
           m.subs[c], c, ev)
    ELSE m

\* connect after the locked section (lines 48-80).  A failed send_json, or
\* a KeyError at line 59 when the channel's set is gone, goes to the except
\* clause, whose close is guarded by `not ...DISCONNECTED` and never runs.
\* A broker call that raises goes there too: the calls after it are skipped.
\* log: ok = connect ran to its end, n = size of the set read at line 59.
connect_subscribe(m, u, c) ==
    IF Cardinality(m.subs[c]) = 1 THEN redis_subscribe(m, u, c) ELSE m

connect_presence(m, u) == IF Raised(m) THEN m ELSE add_to_set(m, u)

connect_except(m, w, u, c, n) ==
    Logged(Caught(m), LogEntry("connect", u, c, ~Raised(m), w, n, TRUE, FALSE))

connect_after_confirmation(m, w, u, c) ==
    IF c \notin DOMAIN m.subs
    THEN Logged(m, LogEntry("connect", u, c, FALSE, w, 0, TRUE, FALSE))
    ELSE connect_except(connect_presence(connect_subscribe(m, u, c), u),
                        w, u, c, Cardinality(m.subs[c]))

\* (variant) the confirmation is written to every session of the channel
ws_deliver_channel(m, w, c, ev) ==
    Logged([m EXCEPT !.inbox =
               [v \in Conns |->
                   IF v = w \/ \E x \in DOMAIN m.ac :
                                  c \in DOMAIN m.ac[x] /\ m.ac[x][c] = v
                   THEN Append(m.inbox[v], ev) ELSE m.inbox[v]]],
           LogEntry("ws_send", conn[w].user, c, TRUE, w, 0, TRUE, FALSE))

connect_confirm_channel(m, w, u, c) ==
    IF ~WsOpen(w)
    THEN Logged(m, LogEntry("connect", u, c, FALSE, w, 0, FALSE, FALSE))
    ELSE connect_after_confirmation(ws_deliver_channel(m, w, c, ConnectedEvent(c)),
                                    w, u, c)

connect_confirm(m, w, u, c) ==
    IF ~WsOpen(w)
    THEN Logged(m, LogEntry("connect", u, c, FALSE, w, 0, FALSE, FALSE))
    ELSE connect_after_confirmation(ws_deliver(m, w, ConnectedEvent(c)), w, u, c)

\* ---------------------------------------------------------------- database
\* crud.create_message: the row gets the next id and status SENT.
create_message(msgs, content, u, c) ==
    Append(msgs, [id |-> Len(msgs) + 1, content |-> content, sender_id |-> u,
                  channel_id |-> c, status |-> "sent"])

\* models.MessageStatus, in the order of the lifecycle
MessageStatus == <<"sent", "delivered", "read">>
StatusRank(st) == CHOOSE k \in DOMAIN MessageStatus : MessageStatus[k] = st

\* crud.update_message_status: the row with that id, when there is one,
\* gets the status passed in, whatever its status was.
update_message_status(msgs, message_id, st) ==
    [i \in DOMAIN msgs |->
        IF msgs[i].id = message_id THEN [msgs[i] EXCEPT !.status = st] ELSE msgs[i]]

\* crud.mark_messages_as_read: the messages of the channel that other users
\* sent and that are not READ become READ.
mark_messages_as_read(msgs, c, u) ==
    [i \in DOMAIN msgs |->
        IF msgs[i].channel_id = c /\ msgs[i].sender_id # u /\ msgs[i].status # "read"
        THEN [msgs[i] EXCEPT !.status = "read"]
        ELSE msgs[i]]

\* ------------------------------------------------------------------ broker
\* (variant) the event is published twice
publish_twice(q, c, ev) ==
    [p \in Procs |->
        IF listeners[p][c] = 0 THEN q[p]
        ELSE q[p] \o [i \in 1..(2 * listeners[p][c]) |->
                        [chan |-> c, data |-> json_dumps(ev)]]]

\* RedisClient.publish: the broker hands the serialized event to every pubsub
\* connection subscribed to the topic, in every process.
publish(q, c, ev) ==
    [p \in Procs |->
        IF listeners[p][c] = 0 THEN q[p]
        ELSE q[p] \o [i \in 1..listeners[p][c] |-> [chan |-> c, data |-> json_dumps(ev)]]]

\* --------------------------------------------------------------- the steps
Store(p, m) ==
    /\ active_connections' = [active_connections EXCEPT ![p] = m.ac]
    /\ connection_status' = [connection_status EXCEPT ![p] = m.cs]
    /\ channel_subscribers' = [channel_subscribers EXCEPT ![p] = m.subs]
    /\ pubsub_clients' = [pubsub_clients EXCEPT ![p] = m.pubsub]
    /\ callback_map' = [callback_map EXCEPT ![p] = m.cb]
    /\ listeners' = [listeners EXCEPT ![p] = m.live]
    /\ online_users' = m.online
    /\ inbox' = m.inbox
    /\ oplog' = m.log
    /\ UNCHANGED <<broker_up, outages>>

regVars == <<active_connections, connection_status, channel_subscribers,
             pubsub_clients, callback_map, listeners, online_users, broker_up,
             outages>>
mgrVars == <<regVars, inbox>>

Init ==
    /\ active_connections = [p \in Procs |-> EmptyDict]
    /\ connection_status = [p \in Procs |-> EmptyDict]
    /\ channel_subscribers = [p \in Procs |-> EmptyDict]
    /\ pubsub_clients = [p \in Procs |-> {}]
    /\ callback_map = [p \in Procs |-> {}]
    /\ listeners = [p \in Procs |-> [c \in Channels |-> 0]]
    /\ online_users = {}
    /\ conn = [w \in Conns |-> NoConn]
    /\ pc = [w \in Conns |-> "idle"]
    /\ transport = [w \in Conns |-> "none"]
    /\ inbox = [w \in Conns |-> <<>>]
    /\ db_messages = <<>>
    /\ user_status = [u \in Users |-> "offline"]
    /\ broker_up = TRUE
    /\ outages = 0
    /\ broker_queue = [p \in Procs |-> <<>>]
    /\ loop_tasks = [p \in Procs |-> <<>>]
    /\ frames = 0
    /\ published = <<>>
    /\ oplog = <<>>

\* The event loop of process p is between two steps: no endpoint coroutine
\* of p is in the middle of a stretch that does not suspend.
LoopFree(p) == \A w \in Conns : conn[w].proc = p => pc[w] \notin {"joining", "leaving"}

\* connections are opened in the order of their numbers
CanOpen(w) == pc[w] = "idle" /\ (IF w = 1 THEN TRUE ELSE pc[w - 1] # "idle")

\* The code treats all ids alike, so a connection takes an id already in use
\* or the smallest one not yet in use.
Fresh(used, all) == {x \in all : \A y \in all : y < x => y \in used}
UsedProcs    == {conn[w].proc : w \in Conns}
UsedUsers    == {conn[w].user : w \in Conns}
UsedChannels == {conn[w].chan : w \in Conns}

\* (variant) the membership of the channel is not looked at
AdmittedAnyUser(authOK, member) == authOK

\* websocket_endpoint, lines 150-158: the endpoint goes on to connect when
\* the credential resolves to a user (authOK) and the channel exists and has
\* the user among its members (member).
Admitted(authOK, member) == authOK /\ member

\* websocket_endpoint, lines 149-158: the credential does not resolve to a
\* user (websocket_auth closes the socket), or the user is no member of the
\* channel.  The socket is closed and the endpoint returns before connect:
\* the connection leaves no trace but the log of the step.
\* log: ok = the credential was valid, open = the user is a member.
OpenRejected ==
    /\ \E w \in Conns : CanOpen(w)
    /\ \E authOK \in BOOLEAN, member \in BOOLEAN :
          /\ ~Admitted(authOK, member)
          /\ oplog' = <<LogEntry("reject", 0, 0, authOK, 0, 0, member, FALSE)>>
    /\ UNCHANGED <<mgrVars, conn, pc, transport, db_messages, user_status,
                   broker_queue, loop_tasks, frames, published>>

\* websocket_endpoint, lines 149-162, and connect, lines 26-46: the user is
\* authenticated and a member, the socket is accepted and the session is
\* registered under the lock.  The coroutine then waits in send_json.
OpenAccepted(w) ==
    /\ CanOpen(w)
    /\ \E p \in Fresh(UsedProcs, Procs), u \in Fresh(UsedUsers, Users),
          c \in Fresh(UsedChannels, Channels) :
          /\ LoopFree(p)
          /\ \E authOK \in BOOLEAN, member \in BOOLEAN :
                /\ Admitted(authOK, member)
                /\ conn' = [conn EXCEPT ![w] = [proc |-> p, user |-> u, chan |-> c,
                                                auth |-> authOK, member |-> member]]
          /\ Store(p, connect_register(Mgr(p), w, u, c))
    /\ pc' = [pc EXCEPT ![w] = "confirm"]
    /\ transport' = [transport EXCEPT ![w] = "open"]
    /\ UNCHANGED <<db_messages, user_status, broker_queue, loop_tasks, frames, published>>

\* connect, lines 48-80, resumed from send_json: the confirmation, the
\* subscription and the presence entry.  connect returns to the endpoint.
ConnectConfirm(w) ==
    LET p == conn[w].proc
    IN  /\ pc[w] = "confirm"
        /\ transport[w] # "stalled"
        /\ LoopFree(p)
        /\ Store(p, connect_confirm(Mgr(p), w, conn[w].user, conn[w].chan))
        /\ pc' = [pc EXCEPT ![w] = "joining"]
        /\ UNCHANGED <<conn, transport, db_messages, user_status, broker_queue,
                       loop_tasks, frames, published>>

\* websocket_endpoint, lines 164-172: the join notification and the ONLINE
\* status; the coroutine then waits in receive_text.
JoinChannel(w) ==
    LET p == conn[w].proc
        u == conn[w].user
    IN  /\ pc[w] = "joining"
        /\ Store(p, broadcast_to_channel(Mgr(p), conn[w].chan, JoinNotification(u)))
        /\ user_status' = [user_status EXCEPT ![u] = "online"]
        /\ pc' = [pc EXCEPT ![w] = "active"]
        /\ UNCHANGED <<conn, transport, db_messages, broker_queue, loop_tasks, frames, published>>

\* websocket_endpoint, lines 164-172 and 233-238: after the join
\* notification update_user_status raises (the database fails).  The
\* exception is no WebSocketDisconnect: the clause of line 233 calls
\* disconnect and the endpoint returns, with no leave notification and no
\* change of the user's status.
JoinFailed(w) ==
    LET p == conn[w].proc
        u == conn[w].user
        c == conn[w].chan
    IN  /\ pc[w] = "joining"
        /\ Store(p, disconnect(broadcast_to_channel(Mgr(p), c, JoinNotification(u)), u, c))
        /\ pc' = [pc EXCEPT ![w] = "closed"]
        /\ UNCHANGED <<conn, transport, db_messages, user_status, broker_queue,
                       loop_tasks, frames, published>>

\* The client closes its side of the socket, or the network drops it.
PeerClose(w) ==
    /\ pc[w] \in {"confirm", "joining", "active"}
    /\ transport[w] \in {"open", "stalled"}
    /\ transport' = [transport EXCEPT ![w] = "closed"]
    /\ oplog' = <<>>
    /\ UNCHANGED <<mgrVars, conn, pc, db_messages, user_status, broker_queue,
                   loop_tasks, frames, published>>

\* The client stops reading its socket (a slow consumer): from now on a
\* write to the socket does not return.
PeerStall(w) ==
    /\ pc[w] \in {"confirm", "joining", "active"}
    /\ transport[w] = "open"
    /\ transport' = [transport EXCEPT ![w] = "stalled"]
    /\ oplog' = <<>>
    /\ UNCHANGED <<mgrVars, conn, pc, db_messages, user_status, broker_queue,
                   loop_tasks, frames, published>>

\* The connections that are the registered session of their (user, channel)
\* on their process, and those whose endpoint is in its receive loop with
\* the peer's side open.
RegisteredConns(c) ==
    {v \in Conns : /\ conn[v].chan = c
                   /\ Registered(Mgr(conn[v].proc), conn[v].user, c)
                   /\ active_connections[conn[v].proc][conn[v].user][c] = v}
ConnectedConns(c) ==
    {v \in Conns : conn[v].chan = c /\ pc[v] = "active" /\ transport[v] = "open"}

\* (variant) the error event goes to every connection of the channel
error_reply_channel(inb, w) ==
    [v \in Conns |-> IF conn[v].chan = conn[w].chan /\ pc[v] # "idle"
                     THEN Append(inb[v], ErrorEvent) ELSE inb[v]]

\* websocket_endpoint, lines 213-216: the error event is written to the
\* socket of the connection whose frame failed.
error_reply(inb, w) == [inb EXCEPT ![w] = Append(@, ErrorEvent)]

\* (variant) the channel named by the frame
message_channel_frame(channel_id, frame_channel) == frame_channel

\* The channel of a message: the channel_id of the connection's query
\* string; the frame's own channel value is not read.
message_channel(channel_id, frame_channel) == channel_id

\* websocket_endpoint, lines 177-205: a content frame is decoded, stored and
\* published on the topic of the connection's channel; the channel named in
\* the frame is not read.  When the broker does not answer, publish raises
\* after the message was stored, and the frame ends as a failed one (lines
\* 209-216).
ReceiveFrame(w) ==
    LET p == conn[w].proc
        u == conn[w].user
        c == conn[w].chan
    IN  /\ pc[w] = "active"
        /\ transport[w] = "open"
        /\ LoopFree(p)
        /\ frames < MaxFrames
        /\ frames' = frames + 1
        /\ \E content \in Contents, fc \in Channels :
             LET mc   == message_channel(c, fc)
                 msgs == create_message(db_messages, content, u, mc)
                 out  == MessageOut(msgs[Len(msgs)])
             IN  /\ db_messages' = msgs
                 /\ IF broker_up
                    THEN /\ broker_queue' = publish(broker_queue, mc, out)
                         /\ published' = Append(published,
                                [id |-> out.id, chan |-> mc, sender |-> w,
                                 registered |-> RegisteredConns(mc),
                                 connected |-> ConnectedConns(mc)])
                         /\ oplog' = <<LogEntry("publish", u, mc, TRUE, w, out.id,
                                                TRUE, fc = c)>>
                         /\ UNCHANGED inbox
                    ELSE /\ inbox' = error_reply(inbox, w)
                         /\ oplog' = <<LogEntry("publish", u, mc, FALSE, w, out.id,
                                                TRUE, fc = c),
                                       LogEntry("error", u, c, TRUE, w, 0, TRUE, FALSE)>>
                         /\ UNCHANGED <<broker_queue, published>>
        /\ UNCHANGED <<regVars, conn, pc, transport, user_status, loop_tasks>>

\* websocket_endpoint, lines 209-216: the frame does not decode, or
\* create_message raises; an error event goes to the same socket and the
\* loop goes on.  Nothing is stored or published.
ReceiveBadFrame(w) ==
    /\ pc[w] = "active"
    /\ transport[w] = "open"
    /\ LoopFree(conn[w].proc)
    /\ frames < MaxFrames
    /\ frames' = frames + 1
    /\ inbox' = error_reply(inbox, w)
    /\ oplog' = <<LogEntry("error", conn[w].user, conn[w].chan, TRUE, w, 0, TRUE, FALSE)>>
    /\ UNCHANGED <<regVars, conn, pc, transport, db_messages, user_status,
                   broker_queue, loop_tasks, published>>

\* websocket_endpoint, lines 221-223: receive_text raises WebSocketDisconnect
\* and the endpoint calls disconnect.
Disconnect(w) ==
    LET p == conn[w].proc
    IN  /\ pc[w] = "active"
        /\ transport[w] = "closed"
        /\ LoopFree(p)
        /\ Store(p, disconnect(Mgr(p), conn[w].user, conn[w].chan))
        /\ pc' = [pc EXCEPT ![w] = "leaving"]
        /\ UNCHANGED <<conn, transport, db_messages, user_status, broker_queue,
                       loop_tasks, frames, published>>

\* websocket_endpoint, lines 224-232: the leave notification, and OFFLINE
\* when is_user_connected is false.
LeaveChannel(w) ==
    LET p == conn[w].proc
        u == conn[w].user
        m == broadcast_to_channel(Mgr(p), conn[w].chan, LeaveNotification(u))
    IN  /\ pc[w] = "leaving"
        /\ Store(p, m)
        /\ user_status' = IF is_user_connected_in(m, u) THEN user_status
                          ELSE [user_status EXCEPT ![u] = "offline"]
        /\ pc' = [pc EXCEPT ![w] = "closed"]
        /\ UNCHANGED <<conn, transport, db_messages, broker_queue, loop_tasks, frames, published>>

\* RedisClient._message_handler on a listener thread (lines 35-41), and the
\* callback of connect (lines 63-65): the publication is decoded and, when a
\* callback is stored for the topic, a broadcast task is created.
HandleMessage(p) ==
    /\ broker_queue[p] # <<>>
    /\ LET d == Head(broker_queue[p])
       IN  /\ d.chan \in callback_map[p]
           /\ loop_tasks' = [loop_tasks EXCEPT ![p] =
                               Append(@, [chan |-> d.chan, data |-> json_loads(d.data)])]
           /\ oplog' = <<LogEntry("callback", 0, d.chan, TRUE, 0, json_loads(d.data).id,
                                  FALSE, FALSE)>>
    /\ broker_queue' = [broker_queue EXCEPT ![p] = Tail(@)]
    /\ UNCHANGED <<mgrVars, conn, pc, transport, db_messages, user_status, frames, published>>

\* The publication finds no callback for its topic, or the listener thread,
\* which runs no event loop, cannot create the task: nothing is broadcast.
DropMessage(p) ==
    /\ broker_queue[p] # <<>>
    /\ broker_queue' = [broker_queue EXCEPT ![p] = Tail(@)]
    /\ oplog' = <<LogEntry("drop", 0, Head(broker_queue[p]).chan, FALSE, 0,
                           json_loads(Head(broker_queue[p]).data).id, FALSE, FALSE)>>
    /\ UNCHANGED <<mgrVars, conn, pc, transport, db_messages, user_status,
                   loop_tasks, frames, published>>

\* A broadcast task created by the callback runs on the event loop.
RunBroadcastTask(p) ==
    /\ loop_tasks[p] # <<>>
    /\ LoopFree(p)
    /\ LET t == Head(loop_tasks[p])
       IN  Store(p, broadcast_to_channel(Mgr(p), t.chan, t.data))
    /\ loop_tasks' = [loop_tasks EXCEPT ![p] = Tail(@)]
    /\ UNCHANGED <<conn, pc, transport, db_messages, user_status, broker_queue, frames, published>>

Next ==
    \/ OpenRejected
    \/ \E w \in Conns : OpenAccepted(w)
    \/ \E w \in Conns : ConnectConfirm(w)
    \/ \E w \in Conns : JoinChannel(w)
    \/ \E w \in Conns : JoinFailed(w)
    \/ \E w \in Conns : PeerClose(w)
    \/ \E w \in Conns : PeerStall(w)
    \/ \E w \in Conns : ReceiveFrame(w)
    \/ \E w \in Conns : ReceiveBadFrame(w)
    \/ \E w \in Conns : Disconnect(w)
    \/ \E w \in Conns : LeaveChannel(w)
    \/ \E p \in Procs : HandleMessage(p)
    \/ \E p \in Procs : DropMessage(p)
    \/ \E p \in Procs : RunBroadcastTask(p)

Spec == Init /\ [][Next]_vars

\* ----------------------------------------------------------- broker outage
\* The broker stops answering, and answers again.  While it is down every
\* command a process sends to it (PUBLISH, SUBSCRIBE, UNSUBSCRIBE, SADD,
\* SREM) raises; the pubsub connections that exist reconnect by themselves
\* and keep their subscriptions.
BrokerDown ==
    /\ broker_up
    /\ outages < MaxOutages
    /\ outages' = outages + 1
    /\ broker_up' = FALSE
    /\ oplog' = <<>>
    /\ UNCHANGED <<active_connections, connection_status, channel_subscribers,
                   pubsub_clients, callback_map, listeners, online_users, inbox,
                   conn, pc, transport, db_messages, user_status, broker_queue,
                   loop_tasks, frames, published>>

BrokerUp ==
    /\ ~broker_up
    /\ broker_up' = TRUE
    /\ oplog' = <<>>
    /\ UNCHANGED <<outages, active_connections, connection_status, channel_subscribers,
                   pubsub_clients, callback_map, listeners, online_users, inbox,
                   conn, pc, transport, db_messages, user_status, broker_queue,
                   loop_tasks, frames, published>>

NextBroker == Next \/ BrokerDown \/ BrokerUp

SpecBroker == Init /\ [][NextBroker]_vars

\* ---------------------------------------------------------- message status
\* The operations of crud.py on the status of the stored messages, called
\* in any order and with any arguments: SpecStatus is the messages table
\* under create_message, update_message_status and mark_messages_as_read.
dbUnchanged == <<active_connections, connection_status, channel_subscribers,
                 pubsub_clients, callback_map, listeners, online_users, conn, pc,
                 transport, inbox, user_status, broker_up, outages, broker_queue,
                 loop_tasks, published>>

CreateMessage ==
    /\ frames < MaxFrames
    /\ frames' = frames + 1
    /\ \E content \in Contents, u \in Users, c \in Channels :
          db_messages' = create_message(db_messages, content, u, c)
    /\ oplog' = <<>>
    /\ UNCHANGED dbUnchanged

UpdateMessageStatus ==
    /\ \E i \in 1..MaxFrames, k \in DOMAIN MessageStatus :
          /\ db_messages' = update_message_status(db_messages, i, MessageStatus[k])
          /\ oplog' = <<LogEntry("update_message_status", 0, 0, TRUE, 0, i, FALSE, FALSE)>>
    /\ UNCHANGED <<dbUnchanged, frames>>

MarkMessagesAsRead ==
    /\ \E u \in Users, c \in Channels :
          /\ db_messages' = mark_messages_as_read(db_messages, c, u)
          /\ oplog' = <<LogEntry("mark_messages_as_read", u, c, TRUE, 0, 0, FALSE, FALSE)>>
    /\ UNCHANGED <<dbUnchanged, frames>>

NextStatus == CreateMessage \/ UpdateMessageStatus \/ MarkMessagesAsRead

SpecStatus == Init /\ [][NextStatus]_vars

\* ================================================================== claims
HoldsSubscription(p, c) == listeners[p][c] > 0
HasSubscribers(p, c) ==
    c \in DOMAIN channel_subscribers[p] /\ channel_subscribers[p][c] # {}
NoConnectInFlight(p) == \A v \in Conns : conn[v].proc = p => pc[v] # "confirm"
SendEntries == {i \in DOMAIN oplog : oplog[i].op = "send"}
LastOf(q) == q[Len(q)]
\* the last frame the client of w received is a broadcast event
GotBroadcast(w) ==
    inbox[w] # <<>> /\ LastOf(inbox[w]).message_type \in {"notification", "message"}
\* a copy of message i is still on its way to some process's sessions
InFlight(i) ==
    \E p \in Procs :
        \/ \E k \in DOMAIN broker_queue[p] : json_loads(broker_queue[p][k].data).id = i
        \/ \E k \in DOMAIN loop_tasks[p] : loop_tasks[p][k].data.id = i
Received(w, i) ==
    \E k \in DOMAIN inbox[w] : inbox[w][k] = MessageOut(db_messages[i])

\* C1: after a connect or a disconnect has returned, with no other connect
\* of the process in progress, the process holds a broker subscription for
\* chat:<c> if and only if channel_subscribers[c] is non-empty.
\* The code violates it: a connect whose confirmation cannot be sent leaves
\* the session in the set and never subscribes.
C1_SubscriptionIffSubscribers ==
    \A w \in Conns :
        (pc[w] \in {"joining", "leaving"} /\ NoConnectInFlight(conn[w].proc))
        => \A c \in Channels :
              HoldsSubscription(conn[w].proc, c) <=> HasSubscribers(conn[w].proc, c)

SameManager(a, b) ==
    /\ a.ac = b.ac /\ a.subs = b.subs /\ a.pubsub = b.pubsub /\ a.cb = b.cb
    /\ a.live = b.live /\ a.online = b.online /\ a.inbox = b.inbox
    /\ \A u \in Users :
          /\ is_user_connected_in(a, u) = is_user_connected_in(b, u)
          /\ \A c \in Channels :
                is_user_in_channel_in(a, u, c) = is_user_in_channel_in(b, u, c)
C3_DisconnectIdempotent ==
    \A p \in Procs, u \in Users, c \in Channels :
        ~Registered(Mgr(p), u, c) => SameManager(disconnect(Mgr(p), u, c), Mgr(p))

\* C3 witness: the endpoint has called disconnect for a session that a
\* broadcast had already removed.
C3_Witness ==
    \E w \in Conns :
        /\ pc[w] = "leaving"
        /\ oplog # <<>> /\ oplog[1].op = "disconnect" /\ ~oplog[1].ok
        /\ oplog[1].user = conn[w].user /\ oplog[1].chan = conn[w].chan

\* C4: a broadcast delivers the event to every session of its snapshot
\* (those whose peer side is open can receive it).
\* The code violates it: no send of a broadcast writes to the socket.
C4_BroadcastDeliversToSnapshot ==
    \A i \in SendEntries :
        (oplog[1].op = "broadcast" /\ oplog[i].conn # 0 /\ oplog[i].open)
        => GotBroadcast(oplog[i].conn)

\* C5: once no copy of a published message is on its way any more, every
\* session that was registered on the channel at publish time has received
\* the persisted message (same id, content, sender, status SENT).
\* The code violates it.
C5_RoundTrip ==
    \A k \in DOMAIN published :
        ~InFlight(published[k].id)
        => \A w \in published[k].registered : Received(w, published[k].id)

\* C6: a content frame sent by A on one process reaches B, connected to the
\* same channel on another process, as a message event with that content,
\* sender A, that channel and status SENT.
\* The code violates it.
C6_CrossProcessDelivery ==
    \A k \in DOMAIN published :
        ~InFlight(published[k].id)
        => \A w \in published[k].connected :
              conn[w].proc # conn[published[k].sender].proc
              => \E j \in DOMAIN inbox[w] :
                    /\ inbox[w][j].message_type = "message"
                    /\ inbox[w][j].content = db_messages[published[k].id].content
                    /\ inbox[w][j].sender_id = conn[published[k].sender].user
                    /\ inbox[w][j].channel_id = published[k].chan
                    /\ inbox[w][j].status = "sent"

\* C7: a user is in online_users if and only if some process holds a session
\* of the user; a session counts once its connect has run to its end.
\* The code violates it: the last close on one process removes the user
\* while another process still holds a session.
HoldsConfirmedSession(p, u) ==
    \E c \in Channels :
        /\ Registered(Mgr(p), u, c)
        /\ pc[active_connections[p][u][c]] # "confirm"
        /\ inbox[active_connections[p][u][c]] # <<>>
C7_OnlineIffSession ==
    \A u \in Users :
        /\ (\E p \in Procs : HoldsConfirmedSession(p, u)) => u \in online_users
        /\ u \in online_users => \E p \in Procs : u \in DOMAIN active_connections[p]

\* C8: is_user_connected(U) is true while a connection of U is in its
\* receive loop with the peer's side open, and false once every connection
\* of U on the process is closed.
\* The code violates it: the join broadcast removes the healthy session.
C8_PresentWhileOpen ==
    \A w \in Conns :
        /\ (pc[w] = "active" /\ transport[w] = "open")
           => is_user_connected(conn[w].proc, conn[w].user)
        /\ (pc[w] = "closed" /\ \A v \in Conns :
                (conn[v].proc = conn[w].proc /\ conn[v].user = conn[w].user)
                => pc[v] = "closed")
           => ~is_user_connected(conn[w].proc, conn[w].user)

\* C9: send_personal_message to a registered session whose peer side is open
\* delivers the event, returns true and leaves the session registered.
\* The code violates it: it disconnects the session and returns false.
C9_SendToOpenSession ==
    \A i \in SendEntries :
        (oplog[i].conn # 0 /\ oplog[i].open)
        => (oplog[i].ok /\ oplog[i].inch /\ GotBroadcast(oplog[i].conn))

\* C10: send_personal_message to a registered session whose transport is
\* broken returns false, and is_user_in_channel(user, channel) is false when
\* it has returned.
C10_BrokenTransport ==
    \A i \in SendEntries :
        (oplog[i].conn # 0 /\ ~oplog[i].open)
        => (~oplog[i].ok /\ ~oplog[i].inch)

\* C10 witness: a send to a registered session with a broken transport.
C10_Witness ==
    \E i \in SendEntries : oplog[i].conn # 0 /\ ~oplog[i].open /\ ~oplog[i].ok

\* the calls of kind op that the step made before its i-th call, for the
\* same (user, channel)
EarlierCalls(i, op) ==
    {j \in 1..(i - 1) : /\ oplog[j].op = op
                        /\ oplog[j].user = oplog[i].user
                        /\ oplog[j].chan = oplog[i].chan}

\* C11: send_personal_message never ends with an exception.  A send to a
\* registered session whose transport is broken ends with the value false
\* after a disconnect of that session, also when a broker call made by
\* that disconnect fails.
C11_SendNeverRaises ==
    \A i \in SendEntries :
        /\ oplog[i].n = 0
        /\ (oplog[i].conn # 0 /\ ~oplog[i].open)
           => /\ ~oplog[i].ok
              /\ \E j \in EarlierCalls(i, "disconnect") : oplog[j].ok

\* C11 witness: a send to a registered session with a broken transport
\* whose disconnect met a failing broker call.
C11_Witness ==
    \E i \in SendEntries :
        /\ oplog[i].conn # 0 /\ ~oplog[i].open /\ ~oplog[i].ok
        /\ EarlierCalls(i, "caught") # {}

\* C12: in a broadcast where the send to one recipient fails on a broken
\* transport, every other recipient whose transport is open receives the
\* event and stays registered.
\* The code violates it: the healthy recipients are disconnected too and
\* receive nothing.
StillRegistered(w) ==
    /\ Registered(Mgr(conn[w].proc), conn[w].user, conn[w].chan)
    /\ active_connections[conn[w].proc][conn[w].user][conn[w].chan] = w
C12_BroadcastIsolatesFailure ==
    (oplog # <<>> /\ oplog[1].op = "broadcast")
    => \A i \in SendEntries, j \in SendEntries :
          (/\ oplog[j].conn # 0 /\ transport[oplog[j].conn] = "closed"
           /\ oplog[i].conn # 0 /\ oplog[i].open)
          => (GotBroadcast(oplog[i].conn) /\ StillRegistered(oplog[i].conn))

\* C13: after A has connected to a channel and disconnected, A having been
\* the only subscriber of the channel on the process and having had no
\* other session, is_user_connected(A) is false, A is not in online_users
\* and the process holds no subscription for the channel.
SoleSession(w) ==
    \A v \in Conns \ {w} :
        \/ pc[v] = "idle"
        \/ /\ conn[v].user # conn[w].user
           /\ ~(conn[v].proc = conn[w].proc /\ conn[v].chan = conn[w].chan)
C14_OnlyAdmittedRegistered ==
    /\ \A w \in Conns : pc[w] # "idle" => (conn[w].auth /\ conn[w].member)
    /\ \A p \in Procs, u \in Users, c \in Channels :
          Registered(Mgr(p), u, c)
          => /\ conn[active_connections[p][u][c]].auth
             /\ conn[active_connections[p][u][c]].member
             /\ conn[active_connections[p][u][c]].user = u
             /\ conn[active_connections[p][u][c]].chan = c
    /\ \A i \in DOMAIN oplog : oplog[i].op = "reject" => Len(oplog) = 1

\* C14 witness: a handshake of an authenticated user who is no member of
\* the channel has been rejected while a session is registered.
C14_Witness ==
    /\ oplog # <<>> /\ oplog[1].op = "reject" /\ oplog[1].ok /\ ~oplog[1].open
    /\ \E p \in Procs, u \in Users, c \in Channels : Registered(Mgr(p), u, c)

\* C15: a frame of connection w that fails to decode or to be stored sends
\* an error event to w only, leaves w in its receive loop and the registry
\* as it was, and the next frame of w is processed.
FrameFailed(w) ==
    /\ oplog # <<>>
    /\ LastOf(oplog).op = "error" /\ LastOf(oplog).conn = w
C15_FrameErrorKeepsSession ==
    /\ [][\A w \in Conns :
            (frames' # frames /\ FrameFailed(w)')
            => /\ inbox' = [inbox EXCEPT ![w] = Append(@, ErrorEvent)]
               /\ pc[w] = "active" /\ pc' = pc
               /\ UNCHANGED <<active_connections, connection_status,
                              channel_subscribers, pubsub_clients, callback_map,
                              listeners, online_users, transport, published,
                              broker_queue>>]_vars
    /\ [](\A w \in Conns :
            (FrameFailed(w) /\ frames < MaxFrames) => ENABLED ReceiveFrame(w))

\* C15 witness: a frame of a connection has been stored and published after
\* an earlier frame of the same connection had failed.
C15_Witness ==
    \E w \in Conns :
        /\ oplog # <<>> /\ oplog[1].op = "publish" /\ oplog[1].conn = w
        /\ \E k \in DOMAIN inbox[w] : inbox[w][k] = ErrorEvent

\* C16: every message event that was published, is waiting at a listener or
\* in a broadcast task, is the event of a stored message; a frame whose
\* storing failed published nothing (as many publications as stored
\* messages, one per message).
IsStored(e) ==
    /\ e.id \in DOMAIN db_messages
    /\ e = MessageOut(db_messages[e.id])
C16_PublishedIsStored ==
    /\ \A k \in DOMAIN published :
          /\ published[k].id \in DOMAIN db_messages
          /\ db_messages[published[k].id].channel_id = published[k].chan
          /\ db_messages[published[k].id].status = "sent"
          /\ \A j \in DOMAIN published : published[j].id = published[k].id => j = k
    /\ \A p \in Procs :
          /\ \A k \in DOMAIN broker_queue[p] : IsStored(json_loads(broker_queue[p][k].data))
          /\ \A k \in DOMAIN loop_tasks[p] : IsStored(loop_tasks[p][k].data)
    /\ Len(published) = Len(db_messages)
    /\ Len(db_messages) <= frames

\* C16 witness: one frame failed and nothing was stored for it, another was
\* stored and published, and its event is waiting at a listener.
C16_Witness ==
    /\ frames = 2 /\ Len(db_messages) = 1 /\ Len(published) = 1
    /\ \E p \in Procs : broker_queue[p] # <<>>

\* C17: the step that accepts a content frame publishes its event once on
\* the channel's topic (one copy per subscription of the topic) and writes
\* to no socket and starts no broadcast; a message event reaches a session
\* only in the step that runs a broadcast task created by the callback.
DeliveredMessage(w) ==
    /\ inbox'[w] # inbox[w]
    /\ LastOf(inbox'[w]).message_type = "message"
C17_DeliveryOnlyByCallback ==
    [][/\ (db_messages' # db_messages)
          => /\ inbox' = inbox
             /\ loop_tasks' = loop_tasks
             /\ Len(published') = Len(published) + 1
             /\ \A p \in Procs :
                   Len(broker_queue'[p]) =
                       Len(broker_queue[p]) + listeners[p][LastOf(published').chan]
       /\ \A w \in Conns :
             DeliveredMessage(w)
             => \E p \in Procs :
                   /\ loop_tasks[p] # <<>>
                   /\ loop_tasks'[p] = Tail(loop_tasks[p])
                   /\ LastOf(inbox'[w]) = Head(loop_tasks[p]).data]_vars

\* C17 witness: a frame was published while a session of another
\* connection was registered on the same channel of the same process.
C17_Witness ==
    /\ oplog # <<>> /\ oplog[1].op = "publish" /\ oplog[1].ok
    /\ \E v \in LastOf(published).registered :
          /\ v # oplog[1].conn
          /\ conn[v].proc = conn[oplog[1].conn].proc
          /\ inbox[v] = <<>>

\* C18: the message events of one channel reach a session in the order in
\* which the broker delivered them to the process, which is the order of
\* their ids (publish keeps the order of the frames, a listener handles its
\* publications one after the other).
MessageEvents(w) == {k \in DOMAIN inbox[w] : inbox[w][k].message_type = "message"}
C18_OrderPreserved ==
    \A w \in Conns :
        \A i \in MessageEvents(w), j \in MessageEvents(w) :
            (i < j /\ inbox[w][i].channel_id = inbox[w][j].channel_id)
            => inbox[w][i].id <= inbox[w][j].id

\* The case of C18: a session has received two message events.
C18_ReceivedTwo ==
    \E w \in Conns : Cardinality(MessageEvents(w)) >= 2

\* No session receives any event of a broadcast (see C9).
NothingBroadcastReceived ==
    \A w \in Conns :
        \A k \in DOMAIN inbox[w] : inbox[w][k].message_type \in {"connection_status", "error"}

\* C19: when a broadcast has in its snapshot a session whose writes do not
\* return (a slow consumer), every other session of the snapshot whose
\* transport is open has received the event once the broadcast task has
\* run to its end (no later step writes the event of a finished task).
\* The code violates it: the open sessions are disconnected and the event
\* is never written to them.
BesideSlowConsumer(w) ==
    /\ oplog # <<>> /\ oplog[1].op = "broadcast"
    /\ \E i \in SendEntries, j \in SendEntries :
          /\ oplog[i].conn = w /\ oplog[i].open
          /\ oplog[j].conn # 0 /\ oplog[j].conn # w
          /\ transport[oplog[j].conn] = "stalled"
ReceivedBroadcast(w) ==
    \E k \in DOMAIN inbox[w] : inbox[w][k].message_type \in {"notification", "message"}
C19_SlowConsumerDoesNotStall ==
    \A w \in Conns : BesideSlowConsumer(w) => ReceivedBroadcast(w)

\* C20: no broker call (subscribe, unsubscribe, add to or remove from
\* online_users) and no write to a socket is made while the manager's lock
\* is held.
\* The code violates it: disconnect calls remove_from_set and unsubscribe
\* inside its locked section.
BrokerOrSocketCalls ==
    {"subscribe", "subscribe_failed", "unsubscribe", "sadd", "srem", "ws_send"}
C20_NoBrokerCallUnderLock ==
    \A i \in DOMAIN oplog :
        oplog[i].op \in BrokerOrSocketCalls => ~oplog[i].locked

\* C21: the close of a session triggers disconnect for its (user, channel)
\* once: when the endpoint notices the close and calls disconnect, no
\* disconnect has been made for that session before, so the session is
\* still registered at the call.  (w is the only connection of its user to
\* its channel on its process, and the call in the log is the endpoint's.)
\* The code violates it: a send of a broadcast has already called
\* disconnect for the session, and the endpoint calls it a second time.
OnlyConnectionOf(w) ==
    \A v \in Conns \ {w} :
        \/ pc[v] \notin {"confirm", "joining", "active", "leaving", "closed"}
        \/ conn[v].proc # conn[w].proc
        \/ conn[v].user # conn[w].user
        \/ conn[v].chan # conn[w].chan
EndpointDisconnected(w) ==
    /\ pc[w] = "leaving"
    /\ \A v \in Conns \ {w} : pc[v] # "leaving"
    /\ oplog # <<>> /\ oplog[1].op = "disconnect"
C21_DisconnectOnce ==
    \A w \in Conns :
        (EndpointDisconnected(w) /\ OnlyConnectionOf(w)) => oplog[1].ok

\* C22: a connection that went through connect and the join notification
\* ends in one way only: the endpoint calls disconnect for its (user,
\* channel), and the step that ends the connection is the broadcast of the
\* leave notification.
\* The code violates it: an exception that is no WebSocketDisconnect ends
\* the connection with a disconnect and no leave notification.
Connected(w) == pc[w] \in {"joining", "active", "leaving"}
CallsDisconnectFirst(w) ==
    /\ oplog # <<>>
    /\ oplog[1].op = "disconnect"
    /\ oplog[1].user = conn[w].user /\ oplog[1].chan = conn[w].chan
C22_ExitDisconnectsThenLeaves ==
    [][\A w \in Conns :
          /\ (pc[w] = "active" /\ pc'[w] # "active")
             => (pc'[w] = "leaving" /\ CallsDisconnectFirst(w)')
          /\ (Connected(w) /\ pc'[w] = "closed") => pc[w] = "leaving"]_vars

\* C23: the step that closes connection w (the leave notification and the
\* status update) sets the status of the user to OFFLINE when the user has
\* no other connection on any process, and leaves an ONLINE status as it
\* is when another connection of the user, on any channel of any process,
\* is in its receive loop with the peer's side open.
\* The code violates it: is_user_connected looks at the sessions of the
\* process that closes the connection only (and these are removed by the
\* broadcasts, see C9).
OtherConnections(w) == {v \in Conns \ {w} : conn[v].user = conn[w].user}
HasOpenSessionElsewhere(w) ==
    \E v \in OtherConnections(w) : pc[v] = "active" /\ transport[v] = "open"
HasNoOtherConnection(w) ==
    \A v \in OtherConnections(w) : pc[v] = "closed"
C23_OfflineIffLastSession ==
    [][\A w \in Conns :
          (pc[w] = "leaving" /\ pc'[w] = "closed")
          => /\ HasNoOtherConnection(w) => user_status'[conn[w].user] = "offline"
             /\ (HasOpenSessionElsewhere(w) /\ user_status[conn[w].user] = "online")
                => user_status'[conn[w].user] = "online"]_vars

\* C24: the status of a stored message only moves forward along SENT,
\* DELIVERED, READ: no call of create_message, update_message_status or
\* mark_messages_as_read takes a message to an earlier status.
\* The code violates it: update_message_status stores the status it is
\* given without looking at the status the message has.
C24_StatusMovesForward ==
    [][\A i \in DOMAIN db_messages :
          StatusRank(db_messages'[i].status) >= StatusRank(db_messages[i].status)]_vars

\* C25: the registry holds one session per (user, channel), the one of a
\* connection of that user to that channel on that process; and for a user
\* with sessions in two channels c1 and c2 of a process, disconnect(user,
\* c1) leaves the session of c2 registered with the same connection and
\* its status flag, the user in the subscriber set of c2, the subscription
\* of c2, and the user's presence (is_user_connected, online_users).
OneSessionPerKey(p) ==
    \A u \in DOMAIN active_connections[p] :
        \A c \in DOMAIN active_connections[p][u] :
            /\ active_connections[p][u][c] \in Conns
            /\ conn[active_connections[p][u][c]].proc = p
            /\ conn[active_connections[p][u][c]].user = u
            /\ conn[active_connections[p][u][c]].chan = c
OtherChannelKept(a, b, u, c2) ==
    /\ Registered(b, u, c2)
    /\ b.ac[u][c2] = a.ac[u][c2]
    /\ is_user_in_channel_in(b, u, c2) = is_user_in_channel_in(a, u, c2)
    /\ c2 \in DOMAIN b.subs /\ b.subs[c2] = a.subs[c2]
    /\ (c2 \in b.pubsub) = (c2 \in a.pubsub) /\ b.live[c2] = a.live[c2]
    /\ (u \in b.online) = (u \in a.online)
    /\ is_user_connected_in(b, u) = is_user_connected_in(a, u)
C25_ChannelsIndependent ==
    \A p \in Procs :
        /\ OneSessionPerKey(p)
        /\ \A u \in Users, c1 \in Channels, c2 \in Channels :
              (c1 # c2 /\ Registered(Mgr(p), u, c1) /\ Registered(Mgr(p), u, c2))
              => OtherChannelKept(Mgr(p), disconnect(Mgr(p), u, c1), u, c2)

\* C25 witness: a disconnect has removed the session of a user from one
\* channel while the user's session in another channel of the same process
\* is registered, and the user is present.
C25_Witness ==
    \E i \in DOMAIN oplog, w \in Conns, v \in Conns :
        /\ oplog[i].op = "disconnect" /\ oplog[i].ok
        /\ conn[w].user = oplog[i].user /\ conn[w].chan = oplog[i].chan
        /\ conn[v].user = conn[w].user /\ conn[v].proc = conn[w].proc
        /\ conn[v].chan # conn[w].chan
        /\ ~Registered(Mgr(conn[w].proc), conn[w].user, conn[w].chan)
        /\ StillRegistered(v)
        /\ conn[v].user \in channel_subscribers[conn[v].proc][conn[v].chan]
        /\ conn[v].user \in online_users
        /\ is_user_connected(conn[v].proc, conn[v].user)

\* C26: connect makes its calls in this order: the session is registered
\* (registry and subscriber set), the broker subscription of the channel is
\* created when the user is its first subscriber, the user is added to
\* online_users, and after these the connected event is written to the
\* socket of the new session.
\* The code violates it: the connected event is written right after the
\* registration, before the subscription and the presence entry.
ConnectReturned == oplog # <<>> /\ LastOf(oplog).op = "connect"
C26_ConnectOrder ==
    ConnectReturned
    => /\ \A i \in DOMAIN oplog : oplog[i].op # "register"
       /\ \A i \in DOMAIN oplog, j \in DOMAIN oplog :
             (oplog[i].op = "subscribe" /\ oplog[j].op = "sadd") => i < j
       /\ \A i \in DOMAIN oplog, j \in DOMAIN oplog :
             (oplog[i].op \in {"subscribe", "sadd"} /\ oplog[j].op = "ws_send") => i < j

\* C27: disconnect(user, channel) takes the user out of online_users only
\* when the session was registered and was the last session of the user on
\* the process; it makes no SREM while the user has a session in another
\* channel of the process.
LastSessionOf(m, u, c) == Registered(m, u, c) /\ DOMAIN m.ac[u] = {c}
MakesSrem(m, u) ==
    \E i \in DOMAIN m.log : m.log[i].op = "srem" /\ m.log[i].user = u
PresenceOnlyWithLast(a, b, u, c) ==
    /\ MakesSrem(b, u) <=> LastSessionOf(a, u, c)
    /\ (u \in a.online /\ u \notin b.online) => LastSessionOf(a, u, c)
    /\ \A x \in Users \ {u} : ~MakesSrem(b, x) /\ ((x \in b.online) = (x \in a.online))
C27_PresenceRemovedWithLast ==
    \A p \in Procs, u \in Users, c \in Channels :
        PresenceOnlyWithLast(Mgr(p), disconnect(Mgr(p), u, c), u, c)

\* C27 witness: a user had sessions in two channels of a process; the
\* disconnect of the second one, the last, has removed the user from
\* online_users.
C27_Witness ==
    \E i \in DOMAIN oplog, w \in Conns, v \in Conns :
        /\ oplog[i].op = "srem" /\ oplog[i].ok
        /\ conn[w].user = oplog[i].user /\ conn[v].user = oplog[i].user
        /\ conn[w].proc = conn[v].proc /\ conn[w].chan # conn[v].chan
        /\ pc[w] = "active" /\ pc[v] = "active"
        /\ conn[w].user \notin DOMAIN active_connections[conn[w].proc]
        /\ conn[w].user \notin online_users

\* C28: when the publish of a stored message fails because the broker does
\* not answer, the message event is still delivered to the other sessions
\* of the channel on the sender's process: once the frame has been
\* handled, each of them that is registered with its peer's side open has
\* received the event, or a copy is on its way to it.
\* The code violates it: the failed publish ends the frame with an error
\* event to the sender, and nothing is handed to the local sessions.
LocalSessionsBeside(w) ==
    {v \in RegisteredConns(conn[w].chan) \ {w} :
        conn[v].proc = conn[w].proc /\ transport[v] = "open"}
PublishFailed(i) == oplog[i].op = "publish" /\ ~oplog[i].ok
C28_LocalDeliveryWithoutBroker ==
    \A i \in DOMAIN oplog :
        PublishFailed(i)
        => \A v \in LocalSessionsBeside(oplog[i].conn) :
              Received(v, oplog[i].n) \/ InFlight(oplog[i].n)

\* C29: disconnect(u, c), called directly or by a send to a session whose
\* transport is broken, changes nothing but the entry of (u, c), the
\* membership of u in the set of c (with the set and the subscription of c
\* when u was its last member) and the presence of u: every other registry
\* entry, the other members of c's set, every other channel's set and
\* subscription, every other user's presence and every inbox are as
\* before.
SameEntry(a, b, x, y) ==
    /\ Registered(a, x, y) = Registered(b, x, y)
    /\ Registered(a, x, y) => b.ac[x][y] = a.ac[x][y]
    /\ is_user_in_channel_in(a, x, y) = is_user_in_channel_in(b, x, y)
SameChannel(a, b, y) ==
    /\ (y \in DOMAIN a.subs) = (y \in DOMAIN b.subs)
    /\ y \in DOMAIN a.subs => b.subs[y] = a.subs[y]
    /\ (y \in a.pubsub) = (y \in b.pubsub)
    /\ (y \in a.cb) = (y \in b.cb)
    /\ a.live[y] = b.live[y]
OthersStayIn(a, b, u, c) ==
    (c \in DOMAIN a.subs /\ a.subs[c] \ {u} # {})
    => /\ c \in DOMAIN b.subs /\ b.subs[c] \ {u} = a.subs[c] \ {u}
       /\ (c \in a.pubsub) = (c \in b.pubsub) /\ a.live[c] = b.live[c]
ScopedTo(a, b, u, c) ==
    /\ \A x \in Users, y \in Channels : <<x, y>> # <<u, c>> => SameEntry(a, b, x, y)
    /\ \A y \in Channels \ {c} : SameChannel(a, b, y)
    /\ OthersStayIn(a, b, u, c)
    /\ \A x \in Users \ {u} :
          /\ (x \in a.online) = (x \in b.online)
          /\ is_user_connected_in(a, x) = is_user_connected_in(b, x)
    /\ a.inbox = b.inbox
BrokenSession(p, u, c) ==
    Registered(Mgr(p), u, c) /\ ~WsOpen(active_connections[p][u][c])
C29_FailureScopedToSession ==
    \A p \in Procs, u \in Users, c \in Channels :
        /\ ScopedTo(Mgr(p), disconnect(Mgr(p), u, c), u, c)
        /\ BrokenSession(p, u, c)
           => ScopedTo(Mgr(p), send_personal_message(Mgr(p), ErrorEvent, u, c).m, u, c)

\* C29 witness: a send to a session whose transport is closed has
\* disconnected it, while the session of another user is registered on the
\* same process.
C29_Witness ==
    \E i \in SendEntries, v \in Conns :
        /\ oplog[i].conn # 0 /\ transport[oplog[i].conn] = "closed" /\ ~oplog[i].ok
        /\ EarlierCalls(i, "disconnect") # {}
        /\ v # oplog[i].conn
        /\ conn[v].proc = conn[oplog[i].conn].proc
        /\ conn[v].user # oplog[i].user
        /\ StillRegistered(v)
        /\ ~StillRegistered(oplog[i].conn)

\* C30: the connected event of a connect is written to the socket of the
\* new connection and to no other: the step that delivers it is the
\* connect of that connection, it changes no other inbox, and it comes
\* before the step in which the endpoint broadcasts the join notification.
\* A connection receives the event once, a join notification of its own
\* user never precedes it, and when connect returns to the endpoint, which
\* then broadcasts the join notification, a connection whose socket took
\* the write has the event as the last one received.
GetsConnectedEvent(v) ==
    /\ inbox'[v] # inbox[v]
    /\ LastOf(inbox'[v]).message_type = "connection_status"
ConnectedEventAt(w, k) == inbox[w][k] = ConnectedEvent(conn[w].chan)
C30_ConnectedEventToNewSessionFirst ==
    /\ [][\A v \in Conns :
            GetsConnectedEvent(v)
            => /\ pc[v] = "confirm" /\ pc'[v] = "joining"
               /\ inbox'[v] = Append(inbox[v], ConnectedEvent(conn[v].chan))
               /\ \A x \in Conns \ {v} : inbox'[x] = inbox[x]]_vars
    /\ [](\A w \in Conns :
            \A k \in DOMAIN inbox[w] :
                /\ inbox[w][k].message_type = "connection_status"
                   => /\ ConnectedEventAt(w, k)
                      /\ \A j \in DOMAIN inbox[w] : ConnectedEventAt(w, j) => j = k
                /\ inbox[w][k] = JoinNotification(conn[w].user)
                   => \E j \in 1..(k - 1) : ConnectedEventAt(w, j))
    /\ [](\A w \in Conns :
            (ConnectReturned /\ LastOf(oplog).conn = w /\ LastOf(oplog).open)
            => (pc[w] = "joining" /\ ConnectedEventAt(w, Len(inbox[w]))))

\* C30 witness: a connect has delivered the connected event to its
\* connection while the session of another connection to the same channel
\* is registered on the same process with its peer's side open; that one
\* has received nothing.
C30_Witness ==
    \E w \in Conns, v \in Conns :
        /\ w # v
        /\ pc[w] = "joining" /\ ConnectReturned /\ LastOf(oplog).conn = w
        /\ inbox[w] = <<ConnectedEvent(conn[w].chan)>>
        /\ conn[v].proc = conn[w].proc /\ conn[v].chan = conn[w].chan
        /\ StillRegistered(v) /\ transport[v] = "open"
        /\ inbox[v] = <<>>

\* C31: in every state between two steps (no locked section is in
\* progress), on every process: user u is in channel_subscribers[c] if and
\* only if c is a key of active_connections[u]; is_user_in_channel(u, c)
\* is true if and only if that entry exists; and no empty subscriber set
\* and no empty per-user connection dict is kept.
\* The code violates it: a broker call that raises inside the locked
\* section of disconnect leaves the section half done (it holds while the
\* broker answers every command).
InSubscribers(p, u, c) ==
    c \in DOMAIN channel_subscribers[p] /\ u \in channel_subscribers[p][c]
C31_RegistryConsistent ==
    \A p \in Procs :
        /\ \A u \in Users, c \in Channels :
              /\ InSubscribers(p, u, c) <=> Registered(Mgr(p), u, c)
              /\ is_user_in_channel(p, u, c) <=> Registered(Mgr(p), u, c)
        /\ \A c \in DOMAIN channel_subscribers[p] : channel_subscribers[p][c] # {}
        /\ \A u \in DOMAIN active_connections[p] : DOMAIN active_connections[p][u] # {}

\* C32: when a user has connected a second time to a channel where the
\* user already had a connection on the process, the close of the older
\* connection leaves the session of the newer one registered: the step in
\* which the endpoint of the older connection handles its close removes no
\* session that belongs to another connection whose peer's side is open.
\* The code violates it: the endpoint calls disconnect(user, channel),
\* which removes whatever connection is registered under that key.
NewerSessionOf(w, v) ==
    /\ v > w
    /\ conn[v].proc = conn[w].proc
    /\ conn[v].user = conn[w].user
    /\ conn[v].chan = conn[w].chan
    /\ transport[v] = "open"
    /\ StillRegistered(v)
C32_OlderCloseKeepsNewer ==
    [][\A w \in Conns, v \in Conns :
          (pc[w] = "active" /\ pc'[w] = "leaving" /\ NewerSessionOf(w, v))
          => StillRegistered(v)']_vars

\* C33: one publication on a channel topic triggers at most one broadcast
\* on a process, whatever connects and disconnects came before: the step
\* that publishes hands at most one copy to each process, a listener
\* creates one broadcast task per copy, so a process never holds two
\* copies of one message, and no session receives a message event twice.
\* The code violates it: a disconnect cut short by a broker call that
\* raises leaves the user in the channel's set and the subscription in
\* place, and the next connect of the user subscribes a second time; the
\* first pubsub connection keeps listening.
CopiesAt(p, i) ==
    Cardinality({k \in DOMAIN broker_queue[p] : json_loads(broker_queue[p][k].data).id = i})
    + Cardinality({k \in DOMAIN loop_tasks[p] : loop_tasks[p][k].data.id = i})
TimesReceived(w, i) ==
    Cardinality({k \in MessageEvents(w) : inbox[w][k].id = i})
C33_AtMostOnce ==
    /\ [](\A i \in DOMAIN db_messages :
            /\ \A p \in Procs : CopiesAt(p, i) <= 1
            /\ \A w \in Conns : TimesReceived(w, i) <= 1)
    /\ [][\A p \in Procs :
            /\ Len(broker_queue'[p]) <= Len(broker_queue[p]) + 1
            /\ Len(loop_tasks'[p]) <= Len(loop_tasks[p]) + 1
            /\ Len(loop_tasks'[p]) > Len(loop_tasks[p])
               => broker_queue'[p] = Tail(broker_queue[p])]_vars

\* C34: an event of channel c reaches sessions of channel c only.  A
\* publication is queued and turned into a broadcast task under its own
\* channel; a broadcast to c addresses (sends to, disconnects) only
\* sessions registered for c, through connections opened for c; the step
\* changes no inbox and no registration of a connection to another
\* channel, also when the same user holds sessions in both; and every
\* message event in an inbox carries the channel of its connection.
BroadcastStep == oplog # <<>> /\ oplog[1].op = "broadcast"
AddressedTo(i, c) ==
    /\ oplog[i].chan = c
    /\ oplog[i].conn # 0 => conn[oplog[i].conn].chan = c
OtherChannelUntouched(w) ==
    /\ inbox'[w] = inbox[w]
    /\ StillRegistered(w) = StillRegistered(w)'
C34_ChannelIsolation ==
    /\ [](/\ BroadcastStep
             => \A i \in DOMAIN oplog :
                   oplog[i].op \in {"send", "ws_send", "disconnect"}
                   => AddressedTo(i, oplog[1].chan)
          /\ \A p \in Procs :
                /\ \A k \in DOMAIN broker_queue[p] :
                      json_loads(broker_queue[p][k].data).channel_id = broker_queue[p][k].chan
                /\ \A k \in DOMAIN loop_tasks[p] :
                      loop_tasks[p][k].data.channel_id = loop_tasks[p][k].chan
          /\ \A w \in Conns : \A k \in MessageEvents(w) :
                inbox[w][k].channel_id = conn[w].chan)
    /\ [][BroadcastStep'
          => \A w \in Conns :
                (pc[w] # "idle" /\ conn[w].chan # oplog'[1].chan)
                => OtherChannelUntouched(w)]_vars

\* C34 witness: a broadcast to one channel has addressed the session of a
\* user who also holds, on the same process, a registered session in
\* another channel with its peer's side open; that one is still registered
\* and has received nothing.
C34_Witness ==
    \E i \in SendEntries, v \in Conns :
        /\ BroadcastStep
        /\ oplog[i].conn # 0 /\ oplog[i].conn # v
        /\ conn[v].user = oplog[i].user
        /\ conn[v].proc = conn[oplog[i].conn].proc
        /\ conn[v].chan # oplog[1].chan
        /\ StillRegistered(v) /\ transport[v] = "open"
        /\ inbox[v] = <<>>

\* C35: a connect whose confirmation could not be sent leaves no partial
\* registration: when connect has returned from a failed send of the
\* connected event, the session is neither in active_connections nor in
\* channel_subscribers, and the endpoint does not carry on with it (join
\* broadcast, receive loop).
ConnectFailed == ConnectReturned /\ ~LastOf(oplog).ok
C35_NoPartialRegistration ==
    ConnectFailed
    => /\ ~StillRegistered(LastOf(oplog).conn)
       /\ ~InSubscribers(conn[LastOf(oplog).conn].proc, LastOf(oplog).user,
                         LastOf(oplog).chan)
       /\ pc[LastOf(oplog).conn] \notin {"joining", "active"}

\* C36: every message is stored and published under the channel its
\* connection was opened and admitted for, whatever channel the inbound
\* frame names: the row, the publish call and the publication carry the
\* connection's channel, and the sender had passed authentication and the
\* membership test for it.
AdmittedTo(w, c) == conn[w].chan = c /\ conn[w].auth /\ conn[w].member
PublishStep == oplog # <<>> /\ oplog[1].op = "publish"
C36_PublishOnOwnChannel ==
    /\ PublishStep
       => /\ AdmittedTo(oplog[1].conn, oplog[1].chan)
          /\ db_messages[oplog[1].n].channel_id = oplog[1].chan
    /\ \A k \in DOMAIN published :
          /\ AdmittedTo(published[k].sender, published[k].chan)
          /\ db_messages[published[k].id].channel_id = published[k].chan
    /\ \A p \in Procs : \A k \in DOMAIN broker_queue[p] :
          \E j \in DOMAIN published :
             /\ published[j].id = json_loads(broker_queue[p][k].data).id
             /\ published[j].chan = broker_queue[p][k].chan

\* C36 witness: a frame naming another channel than the connection's has
\* been stored and published, and a process holds the publication.
C36_Witness ==
    /\ PublishStep /\ oplog[1].ok /\ ~oplog[1].inch
    /\ \E p \in Procs : broker_queue[p] # <<>>

\* C37: cleanup completes.  Every path of the endpoint out of a closed
\* transport ends after one disconnect, so the removal the claim promises
\* has taken place when the handler has returned.  For a connection whose
\* peer has closed and whose handler has returned: unless another handler
\* runs for the same (user, channel) of the process, the session is neither
\* in active_connections nor in channel_subscribers; unless another handler
\* runs for the channel on the process, the process has no listener on the
\* channel's topic; unless another handler runs for the user, the user is
\* not in online_users.
Running(w) == pc[w] \in {"confirm", "joining", "active", "leaving"}
RunningFor(p, u, c) ==
    \E w \in Conns : Running(w) /\ conn[w].proc = p /\ conn[w].user = u /\ conn[w].chan = c
ClosedAndReturned(w) == pc[w] = "closed" /\ transport[w] = "closed"
SessionRemoved(p, u, c) == ~Registered(Mgr(p), u, c) /\ ~InSubscribers(p, u, c)
CleanedUp(p, u, c) ==
    /\ ~RunningFor(p, u, c) => SessionRemoved(p, u, c)
    /\ (\A v \in Users : ~RunningFor(p, v, c)) => listeners[p][c] = 0
    /\ (\A q \in Procs, d \in Channels : ~RunningFor(q, u, d)) => u \notin online_users
C37_CleanupCompletes ==
    \A w \in Conns :
        ClosedAndReturned(w) => CleanedUp(conn[w].proc, conn[w].user, conn[w].chan)

\* C38: the manager's lock never deadlocks.  The lock is free whenever a
\* disconnect is called, from the endpoint, from a send or from a
\* broadcast: only the registry update of connect and the broker calls of
\* disconnect are made with the lock held.  Every locked section gives the
\* lock back: whichever call of connect's registration, disconnect, send or
\* broadcast is made next in any reachable state, the lock is free when it
\* returns, so no connect or disconnect ever finds the lock taken.
UnderLock == {"register", "srem", "unsubscribe"}
LockRequests == {i \in DOMAIN oplog : oplog[i].op = "disconnect"}
LockFreeAfter(m) == ~m.lock
C38_LockNeverDeadlocks ==
    /\ \A i \in LockRequests : ~oplog[i].locked
    /\ \A i \in DOMAIN oplog : oplog[i].locked => oplog[i].op \in UnderLock
    /\ \A p \in Procs, u \in Users, c \in Channels :
          /\ LockFreeAfter(disconnect(Mgr(p), u, c))
          /\ LockFreeAfter(send_personal_message(Mgr(p), JoinNotification(u), u, c).m)
          /\ LockFreeAfter(broadcast_to_channel(Mgr(p), c, LeaveNotification(u)))
          /\ \A w \in Conns : LockFreeAfter(connect_register(Mgr(p), w, u, c))

\* C38 witness: one step has taken the lock twice: a disconnect that made
\* a call under the lock, and a later disconnect of the same step.
C38_Witness ==
    \E i \in LockRequests, j \in LockRequests, k \in DOMAIN oplog :
        i < k /\ k < j /\ oplog[k].locked

====
